---- MODULE Spec2Model ----
(***************************************************************************)
(* Recording-session lifecycle of apps/desktop/src-tauri/src/recording.rs: *)
(* the commands start/pause/resume/stop/restart/delete_recording, the      *)
(* monitor task spawned by start_recording, handle_recording_end,          *)
(* handle_recording_finish and its detached upload task.                   *)
(*                                                                         *)
(* A command is run by a caller. A step of a command is one critical       *)
(* section of the session lock (MutableState's RwLock, always taken with   *)
(* write()), or the code between two critical sections. Tasks that never   *)
(* take the lock (the capture actor, the progressive upload, the upload    *)
(* task, the monitor's receive) are steps of their own.                    *)
(***************************************************************************)
EXTENDS Naturals, Sequences, FiniteSets

\* Number of recording ids (uuid::Uuid::new_v4) start_recording may draw.
MaxRecordings == 2
\* Number of concurrent callers of the commands (the UI layer).
NumCallers == 2

Callers == 1..NumCallers
Ids == 1..MaxRecordings

\* RecordingMode and the ScreenCaptureTarget variants; StartRecordingInputs.
Modes == {"Instant", "Studio"}
Targets == {"Screen", "Window"}
\* The inputs the callers pass: both modes, both kinds of target (with and
\* without occluder), with and without system audio.
StartRecordingInputs ==
    {[mode |-> "Instant", capture_target |-> "Window", capture_system_audio |-> TRUE],
     [mode |-> "Studio", capture_target |-> "Screen", capture_system_audio |-> FALSE]}
NoInputs == [mode |-> "none", capture_target |-> "none", capture_system_audio |-> FALSE]

\* Option::None of the current-session slot, of a caller's session and of
\* the logging layer.
None == 0

VARIABLES
    current_recording,        \* App.current_recording: None or the id of the Session
    recording_logging_handle, \* App.recording_logging_handle: None or the id whose log file is written
    camera_feed, mic_feed,    \* App.camera_feed / App.mic_feed are Some
    main_window,              \* CapWindowId::Main exists (shown or minimized)
    in_progress_window,       \* CapWindowId::InProgressRecording exists
    lock,                     \* holder of the RwLock of MutableState
    call,                     \* per caller: the command it runs and its locals
    next_id,                  \* next fresh recording id
    session,                  \* per id: the InProgressRecording value built by start_recording
    actor,                    \* per id: the capture actor: "none", "running", "paused" or "ended"
    actor_done,               \* per id: the completion channel actor_done_rx
    monitor,                  \* per id: the monitor task of start_recording
    monitor_fx,               \* per id: what the monitor task did, in order
    finish_upload,            \* per id: the finish_upload_tx / rx channel
    progressive,              \* per id: the InstantMultipartUpload task
    recording_dir,            \* per id: <id>.cap exists on disk
    remote_video,             \* per id: the pre-created remote video
    meta,                     \* per id: number of RecordingMeta saved (save_for_project)
    screenshot_task,          \* per id: the create_screenshot task of handle_recording_finish
    upload_task,              \* per id: the detached task of handle_recording_finish
    upload_calls              \* per id: the upload requests that task issued, in order

app_vars == <<current_recording, recording_logging_handle, camera_feed, mic_feed,
              main_window, in_progress_window>>
engine_vars == <<actor, actor_done>>
task_vars == <<monitor, monitor_fx, finish_upload, progressive>>
disk_vars == <<recording_dir, remote_video, meta>>
finish_vars == <<screenshot_task, upload_task, upload_calls>>
vars == <<current_recording, recording_logging_handle, camera_feed, mic_feed,
          main_window, in_progress_window, lock, call, next_id, session, actor,
          actor_done, monitor, monitor_fx, finish_upload, progressive,
          recording_dir, remote_video, meta, screenshot_task, upload_task,
          upload_calls>>

Free == <<"free", 0>>
ByCall(p) == <<"call", p>>

NoSession == [mode |-> "none", inputs |-> NoInputs,
              progressive_upload |-> FALSE, video_upload_info |-> FALSE]

\* Option::None of RecordingMeta.sharing, and no RecordingMeta.
NoSharing == [link |-> <<>>, id |-> None]
NoMeta == [inner |-> "none", sharing |-> NoSharing]

IdleCall == [op |-> "idle", pc |-> "idle", id |-> None, rec |-> None,
             inputs |-> NoInputs, info |-> FALSE, result |-> "none", fx |-> <<>>,
             saved |-> NoMeta]

Init ==
    /\ current_recording = None
    /\ recording_logging_handle = None
    /\ camera_feed = TRUE
    /\ mic_feed = TRUE
    /\ main_window = TRUE
    /\ in_progress_window = FALSE
    /\ lock = Free
    /\ call = [p \in Callers |-> IdleCall]
    /\ next_id = 1
    /\ session = [s \in Ids |-> NoSession]
    /\ actor = [s \in Ids |-> "none"]
    /\ actor_done = [s \in Ids |-> "none"]
    /\ monitor = [s \in Ids |-> "none"]
    /\ monitor_fx = [s \in Ids |-> <<>>]
    /\ finish_upload = [s \in Ids |-> "none"]
    /\ progressive = [s \in Ids |-> "none"]
    /\ recording_dir = [s \in Ids |-> FALSE]
    /\ remote_video = [s \in Ids |-> "none"]
    /\ meta = [s \in Ids |-> 0]
    /\ screenshot_task = [s \in Ids |-> "none"]
    /\ upload_task = [s \in Ids |-> "none"]
    /\ upload_calls = [s \in Ids |-> <<>>]

\* A command that has computed its result returns it at once: the state with
\* pc = "ret" shows the result and what the command leaves behind, and no
\* other step comes between it and the return.
Returning == \E p \in DOMAIN call : call[p].pc = "ret"

\* A command returns: its result is handed to the caller and the guard it
\* still holds is dropped.
Return_keeps_lock(p) ==
    /\ call[p].pc = "ret"
    /\ call' = [call EXCEPT ![p] = IdleCall]
    /\ UNCHANGED <<lock, app_vars, next_id, session, engine_vars, task_vars,
                   disk_vars, finish_vars>>
Return(p) ==
    /\ call[p].pc = "ret"
    /\ call' = [call EXCEPT ![p] = IdleCall]
    /\ lock' = IF lock = ByCall(p) THEN Free ELSE lock
    /\ UNCHANGED <<app_vars, next_id, session, engine_vars, task_vars, disk_vars,
                   finish_vars>>

\* One caller's locals.
Goto(p, c) == [call EXCEPT ![p] = c]
Emit(p, effects) == call[p].fx \o effects
Fail_started(p, msg) ==
    [call[p] EXCEPT !.pc = "ret", !.result = msg, !.fx = @ \o <<"RecordingStarted">>]
Fail(p, msg) == [call[p] EXCEPT !.pc = "ret", !.result = msg]

\* App::set_current_recording: stores the Session in the slot (and emits
\* CurrentRecordingChanged).
set_current_recording(slot, s) == s

\* App::clear_current_recording: takes the Session out of the slot.
clear_current_recording(slot) == None

\* start_recording, lines 214-223: ensure_dir and File::create of the log
\* file, each of which may fail.
DirOutcomes ==
    {"ok", "Failed to create recording directory", "Failed to create logfile"}
dir_after_ensure(fs) == fs # "Failed to create recording directory"

\* start_recording, lines 212-223: the command is invoked, draws a fresh id
\* and creates the recording directory and the log file.
start_recording(p, inputs) ==
    /\ ~Returning
    /\ call[p].pc = "idle"
    /\ next_id <= MaxRecordings
    /\ next_id' = next_id + 1
    /\ \E fs \in DirOutcomes :
        /\ recording_dir' = [recording_dir EXCEPT ![next_id] = dir_after_ensure(fs)]
        /\ call' = Goto(p, [IdleCall EXCEPT
                !.op = "start", !.id = next_id, !.inputs = inputs,
                !.pc = IF fs = "ok" THEN "logging" ELSE "ret",
                !.result = IF fs = "ok" THEN "none" ELSE fs])
    /\ UNCHANGED <<app_vars, lock, session, engine_vars, task_vars, remote_video,
                   meta, finish_vars>>

\* start_recording, lines 262-298: the value of video_upload_info, or the
\* sign-in error. authed: AuthStore::get gave Some; created:
\* create_or_get_video gave Ok.
SignInError == "Please sign in to use instant recording"
video_upload_info(mode, authed, created) ==
    IF mode = "Instant"
    THEN IF authed THEN [err |-> "none", info |-> created]
                   ELSE [err |-> SignInError, info |-> FALSE]
    ELSE [err |-> "none", info |-> FALSE]

\* start_recording, lines 327-338: a progressive upload is spawned when there
\* is a video_upload_info and the mode is Instant.
progressive_upload(mode, info) == info /\ mode = "Instant"

\* start_recording, lines 300-324: Window and Area targets get an occluder.
occluder_fx(target) == IF target = "Screen" THEN <<>> ELSE <<"show_occluder">>

\* start_recording, lines 225-338: the logging layer is reloaded under the
\* write lock, which the statement releases again (the reload may fail);
\* then, without the lock: authentication, pre-creation of the remote video,
\* occluder window, finish channel and progressive upload.
start_recording_prepare(p) ==
    /\ ~Returning
    /\ call[p].pc = "logging"
    /\ lock = Free
    /\ LET s == call[p].id
           mode == call[p].inputs.mode
       IN
       \/ /\ call' = Goto(p, Fail(p, "Failed to reload logging layer"))
          /\ UNCHANGED <<recording_logging_handle, remote_video, finish_upload,
                         progressive>>
       \/ /\ recording_logging_handle' = s
          /\ \E authed \in BOOLEAN, created \in BOOLEAN :
              LET v == video_upload_info(mode, authed, created) IN
              IF v.err # "none"
              THEN /\ call' = Goto(p, Fail(p, v.err))
                   /\ UNCHANGED <<remote_video, finish_upload, progressive>>
              ELSE /\ call' = Goto(p, [call[p] EXCEPT
                        !.pc = "spawn", !.info = v.info,
                        !.fx = Emit(p, occluder_fx(call[p].inputs.capture_target))])
                   /\ remote_video' = [remote_video EXCEPT ![s] =
                        IF v.info THEN "created" ELSE "none"]
                   /\ finish_upload' = [finish_upload EXCEPT ![s] = "unsent"]
                   /\ progressive' = [progressive EXCEPT ![s] =
                        IF progressive_upload(mode, v.info) THEN "running" ELSE "none"]
    /\ UNCHANGED <<current_recording, camera_feed, mic_feed, main_window,
                   in_progress_window, lock, next_id, session, engine_vars, monitor,
                   monitor_fx, recording_dir, meta, finish_vars>>

\* A start_recording that returns an error drops finish_upload_tx.
DropFinish(s) ==
    [finish_upload EXCEPT ![s] = IF @ = "unsent" THEN "dropped" ELSE @]

\* start_recording, lines 385-388: the Instant arm refuses to build a Session
\* without a video_upload_info.
upload_info_missing_ignored(mode, info) == FALSE
upload_info_missing(mode, info) == mode = "Instant" /\ ~info

\* start_recording, lines 376-381 and 402-411: the InProgressRecording value.
InProgressRecording_uninit(inputs, info) == NoSession
InProgressRecording(inputs, info) ==
    [mode |-> inputs.mode, inputs |-> inputs,
     progressive_upload |-> progressive_upload(inputs.mode, info),
     video_upload_info |-> info]

\* start_recording, lines 343-422: the spawned task. It may panic (fail point
\* recording::spawn_actor) before taking the lock. Otherwise, in one critical
\* section of the write lock, it checks the video_upload_info, spawns the
\* capture actor (which may fail) and stores the Session in the slot.
start_recording_spawn(p) ==
    /\ ~Returning
    /\ call[p].pc = "spawn"
    /\ LET s == call[p].id IN
       \/ /\ call' = Goto(p, Fail(p, "Failed to spawn recording actor"))
          /\ finish_upload' = DropFinish(s)
          /\ UNCHANGED <<current_recording, session, actor, actor_done>>
       \/ /\ lock = Free
          /\ upload_info_missing(call[p].inputs.mode, call[p].info)
          /\ call' = Goto(p, Fail(p, "Video upload info not found"))
          /\ finish_upload' = DropFinish(s)
          /\ UNCHANGED <<current_recording, session, actor, actor_done>>
       \/ /\ lock = Free
          /\ ~upload_info_missing(call[p].inputs.mode, call[p].info)
          /\ call' = Goto(p, Fail(p, "spawn error"))
          /\ finish_upload' = DropFinish(s)
          /\ UNCHANGED <<current_recording, session, actor, actor_done>>
       \/ /\ lock = Free
          /\ ~upload_info_missing(call[p].inputs.mode, call[p].info)
          /\ actor' = [actor EXCEPT ![s] = "running"]
          /\ actor_done' = [actor_done EXCEPT ![s] = "pending"]
          /\ session' = [session EXCEPT ![s] =
                            InProgressRecording(call[p].inputs, call[p].info)]
          /\ current_recording' = set_current_recording(current_recording, s)
          /\ call' = Goto(p, [call[p] EXCEPT
                        !.pc = "monitor",
                        !.fx = Emit(p, <<"set_current_recording",
                                         "CurrentRecordingChanged">>)])
          /\ UNCHANGED finish_upload
    /\ UNCHANGED <<recording_logging_handle, camera_feed, mic_feed, main_window,
                   in_progress_window, lock, next_id, monitor, monitor_fx,
                   progressive, disk_vars, finish_vars>>

\* start_recording, lines 458-472: what becomes of the main window.
main_window_on_start(w, behaviour) == w /\ behaviour # "Close"

\* start_recording, lines 424-486: the monitor task is spawned, the windows
\* are arranged, RecordingStarted is emitted and Ok returned.
start_recording_finish(p) ==
    /\ ~Returning
    /\ call[p].pc = "monitor"
    /\ monitor' = [monitor EXCEPT ![call[p].id] = "waiting"]
    /\ \E behaviour \in {"Close", "Minimise"} :
          main_window' = main_window_on_start(main_window, behaviour)
    /\ in_progress_window' = TRUE
    /\ call' = Goto(p, [call[p] EXCEPT !.pc = "ret", !.result = "Ok",
                                       !.fx = Emit(p, <<"RecordingStarted">>)])
    /\ UNCHANGED <<current_recording, recording_logging_handle, camera_feed,
                   mic_feed, lock, next_id, session, engine_vars, monitor_fx,
                   finish_upload, progressive, disk_vars, finish_vars>>

\* The capture engine (cap_recording): a live actor answers the handle; an
\* actor that has ended does not.
Live(a) == a \in {"running", "paused"}

\* handle.stop(): a live actor stops and reports success on the completion
\* channel, or fails and reports the failure; an ended actor gives an error.
handle_stop_outcomes(a) == IF Live(a) THEN {"Ok", "Err"} ELSE {"Err"}
actor_after_stop(a, r) == IF Live(a) THEN "ended" ELSE a
done_after_stop(a, d, r) == IF ~Live(a) THEN d ELSE IF r = "Ok" THEN "ok" ELSE "err"

\* handle.cancel(): a live actor shuts down and its loop ends with success,
\* or fails and reports the failure.
handle_cancel_outcomes(a) == IF Live(a) THEN {"Ok", "Err"} ELSE {"Err"}
actor_after_cancel(a, r) == IF Live(a) THEN "ended" ELSE a
done_after_cancel(a, d, r) == IF ~Live(a) THEN d ELSE IF r = "Ok" THEN "ok" ELSE "err"

\* handle.pause() / handle.resume().
handle_pause_outcomes(a) == IF Live(a) THEN {"Ok", "Err"} ELSE {"Err"}
actor_after_pause(a, r) == IF Live(a) /\ r = "Ok" THEN "paused" ELSE a
actor_after_resume(a, r) == IF Live(a) /\ r = "Ok" THEN "running" ELSE a

\* The capture actor ends by itself: it reports a failure, or it panics and
\* the completion channel closes without a signal.
actor_fails(s) ==
    /\ ~Returning
    /\ Live(actor[s])
    /\ actor' = [actor EXCEPT ![s] = "ended"]
    /\ \/ actor_done' = [actor_done EXCEPT ![s] = "err"]
       \/ actor_done' = [actor_done EXCEPT ![s] = "closed"]
    /\ UNCHANGED <<app_vars, lock, call, next_id, session, task_vars, disk_vars,
                   finish_vars>>

\* InstantMultipartUpload: it succeeds only once the finish trigger was sent;
\* it can fail at any time, also because the trigger's sender was dropped.
progressive_resolves(s) ==
    /\ ~Returning
    /\ progressive[s] = "running"
    /\ \/ /\ finish_upload[s] = "sent"
          /\ progressive' = [progressive EXCEPT ![s] = "ok"]
       \/ progressive' = [progressive EXCEPT ![s] = "err"]
    /\ UNCHANGED <<app_vars, lock, call, next_id, session, engine_vars, monitor,
                   monitor_fx, finish_upload, disk_vars, finish_vars>>

\* handle_recording_finish: the ways it can end. Studio: ProjectRecordingsMeta::new,
\* get_default_preset or config.write fail (lines 657-665); both modes:
\* save_for_project fails (lines 771-772).
finish_outcomes(mode) ==
    IF mode = "Studio" THEN {"ok", "config_err", "save_err"} ELSE {"ok", "save_err"}

\* handle_recording_finish, lines 760-772: the RecordingMeta is saved once,
\* unless an error returned before or save_for_project failed.
saved_meta_never(n, outcome) == n
saved_meta(n, outcome) == IF outcome = "ok" THEN n + 1 ELSE n

\* start_recording, lines 281-288: the VideoUploadInfo of the remote video
\* pre-created for recording s: its id, and its link /s/<id>.
VideoUploadInfo(s) == [id |-> s, link |-> <<"/s", s>>]

\* handle_recording_finish, lines 655-769: the RecordingMeta it builds from
\* the completed recording of s: inner by mode; sharing None for Studio, the
\* link and id of the video_upload_info for Instant.
RecordingMeta_unshared(s) == [inner |-> session[s].mode, sharing |-> NoSharing]
RecordingMeta(s) ==
    [inner |-> session[s].mode,
     sharing |-> IF session[s].mode = "Instant"
                 THEN [link |-> VideoUploadInfo(s).link, id |-> VideoUploadInfo(s).id]
                 ELSE NoSharing]

\* handle_recording_finish, lines 669-748: the Instant arm spawns the upload
\* task; the Studio arm does not.
spawns_upload_task(mode) == mode = "Instant"

\* handle_recording_finish, lines 623-808, on the completed recording of s.
handle_recording_finish_awaits(s, outcome) ==
    /\ screenshot_task' = [screenshot_task EXCEPT ![s] = "ok"]
    /\ upload_task' = [upload_task EXCEPT ![s] =
            IF spawns_upload_task(session[s].mode) THEN "done" ELSE @]
    /\ meta' = [meta EXCEPT ![s] = saved_meta(@, outcome)]
handle_recording_finish(s, outcome) ==
    /\ screenshot_task' = [screenshot_task EXCEPT ![s] = "spawned"]
    /\ upload_task' = [upload_task EXCEPT ![s] =
            IF spawns_upload_task(session[s].mode) THEN "spawned" ELSE @]
    /\ meta' = [meta EXCEPT ![s] = saved_meta(@, outcome)]

finish_fx(s, outcome, behaviour) ==
    (IF spawns_upload_task(session[s].mode) THEN <<"open_external_link">> ELSE <<>>)
    \o (IF outcome # "ok" THEN <<>>
        ELSE (IF session[s].mode = "Studio" THEN <<behaviour>> ELSE <<>>)
             \o <<"StopRecording.play">>)

\* handle_recording_end, line 596: an error of handle_recording_finish
\* returns at once.
end_cleanup_runs_only_ok(outcome) == outcome = "ok"
end_cleanup_runs(outcome) == outcome \in {"ok", "none"}

\* handle_recording_end, lines 599-617: what it emits and closes.
end_fx(outcome) ==
    IF end_cleanup_runs(outcome)
    THEN <<"RecordingStopped", "reload(None)", "close_in_progress",
           "CurrentRecordingChanged">>
    ELSE <<>>

\* handle_recording_end, lines 607-615: the feeds are taken when there is no
\* main window.
feed_after_end(feed, main) == main /\ feed

\* handle_recording_end, lines 587-620, with recording = Some(completed
\* recording of s), or None when s = None (then outcome = "none").
handle_recording_end(s, outcome) ==
    /\ current_recording' = None
    /\ IF s # None THEN handle_recording_finish(s, outcome)
                   ELSE UNCHANGED <<screenshot_task, upload_task, meta>>
    /\ IF end_cleanup_runs(outcome)
       THEN /\ recording_logging_handle' = None
            /\ in_progress_window' = FALSE
            /\ camera_feed' = feed_after_end(camera_feed, main_window)
            /\ mic_feed' = feed_after_end(mic_feed, main_window)
       ELSE UNCHANGED <<recording_logging_handle, in_progress_window,
                        camera_feed, mic_feed>>
    /\ UNCHANGED main_window

end_result(outcome) ==
    IF end_cleanup_runs(outcome) THEN "Ok"
    ELSE IF outcome = "save_err" THEN "Failed to save recording meta"
    ELSE "config error"

\* stop_recording, lines 517-519: with no Session in the slot the command
\* returns its error at once.
stop_not_in_progress_ends(p, c) ==
    /\ call' = Goto(p, [c EXCEPT !.result = "Recording not in progress",
                                 !.fx = end_fx("none")])
    /\ handle_recording_end(None, "none")
    /\ UNCHANGED <<actor, actor_done>>
stop_not_in_progress(p, c) ==
    /\ call' = Goto(p, [c EXCEPT !.result = "Recording not in progress"])
    /\ current_recording' = clear_current_recording(current_recording)
    /\ UNCHANGED <<recording_logging_handle, camera_feed, mic_feed,
                   main_window, in_progress_window, actor, actor_done,
                   meta, screenshot_task, upload_task>>

\* stop_recording, lines 515-526, one critical section of the write lock,
\* which is held to the return: the Session is taken out of the slot, its
\* handle stopped (InProgressRecording::stop, lines 96-119) and
\* handle_recording_end run with the completed recording.
stop_recording(p) ==
    /\ ~Returning
    /\ call[p].pc = "idle"
    /\ lock = Free
    /\ lock' = ByCall(p)
    /\ LET s == current_recording
           c == [IdleCall EXCEPT !.op = "stop", !.pc = "ret", !.rec = s]
       IN
       IF s = None
       THEN stop_not_in_progress(p, c)
       ELSE \E r \in handle_stop_outcomes(actor[s]) :
            /\ actor' = [actor EXCEPT ![s] = actor_after_stop(@, r)]
            /\ actor_done' = [actor_done EXCEPT ![s] = done_after_stop(actor[s], @, r)]
            /\ IF r = "Err"
               THEN /\ call' = Goto(p, [c EXCEPT
                            !.result = "stop error",
                            !.fx = <<"clear_current_recording", "handle.stop">>])
                    /\ current_recording' = clear_current_recording(current_recording)
                    /\ UNCHANGED <<recording_logging_handle, camera_feed, mic_feed,
                                   main_window, in_progress_window, meta,
                                   screenshot_task, upload_task>>
               ELSE \E outcome \in finish_outcomes(session[s].mode),
                       behaviour \in {"OpenEditor", "ShowOverlay"} :
                    /\ handle_recording_end(s, outcome)
                    /\ call' = Goto(p, [c EXCEPT
                            !.result = end_result(outcome),
                            !.saved = IF saved_meta(0, outcome) > 0
                                      THEN RecordingMeta(s) ELSE NoMeta,
                            !.fx = <<"clear_current_recording", "handle.stop">>
                                   \o finish_fx(s, outcome, behaviour)
                                   \o end_fx(outcome)])
    /\ UNCHANGED <<next_id, session, task_vars, recording_dir, remote_video,
                   upload_calls>>

\* pause_recording, line 495, and resume_recording, line 507: the handle's
\* error is returned as the command's error (map_err(|e| e.to_string())?).
pause_result_swallowed(r) == "Ok"
pause_result(r) == IF r = "Ok" THEN "Ok" ELSE "pause error"
resume_result(r) == IF r = "Ok" THEN "Ok" ELSE "resume error"

\* pause_recording, lines 491-499: under the write lock, the handle of the
\* Session in the slot, if any, is paused.
pause_recording(p) ==
    /\ ~Returning
    /\ call[p].pc = "idle"
    /\ lock = Free
    /\ lock' = ByCall(p)
    /\ LET s == current_recording
           c == [IdleCall EXCEPT !.op = "pause", !.pc = "ret", !.rec = s]
       IN
       IF s = None
       THEN /\ call' = Goto(p, [c EXCEPT !.result = "Ok"])
            /\ UNCHANGED actor
       ELSE \E r \in handle_pause_outcomes(actor[s]) :
            /\ actor' = [actor EXCEPT ![s] = actor_after_pause(@, r)]
            /\ call' = Goto(p, [c EXCEPT
                    !.fx = <<"handle.pause", r>>,
                    !.result = pause_result(r)])
    /\ UNCHANGED <<app_vars, next_id, session, actor_done, task_vars, disk_vars,
                   finish_vars>>

\* resume_recording, lines 503-511.
resume_recording(p) ==
    /\ ~Returning
    /\ call[p].pc = "idle"
    /\ lock = Free
    /\ lock' = ByCall(p)
    /\ LET s == current_recording
           c == [IdleCall EXCEPT !.op = "resume", !.pc = "ret", !.rec = s]
       IN
       IF s = None
       THEN /\ call' = Goto(p, [c EXCEPT !.result = "Ok"])
            /\ UNCHANGED actor
       ELSE \E r \in handle_pause_outcomes(actor[s]) :
            /\ actor' = [actor EXCEPT ![s] = actor_after_resume(@, r)]
            /\ call' = Goto(p, [c EXCEPT
                    !.fx = <<"handle.resume", r>>,
                    !.result = resume_result(r)])
    /\ UNCHANGED <<app_vars, next_id, session, actor_done, task_vars, disk_vars,
                   finish_vars>>

\* delete_recording, lines 549-563: under the write lock, which the block
\* releases, the Session is taken out of the slot.
delete_recording_keeps(p) ==
    /\ ~Returning
    /\ call[p].pc = "idle"
    /\ lock = Free
    /\ call' = Goto(p, IF current_recording = None
                       THEN [IdleCall EXCEPT !.op = "delete", !.pc = "ret",
                                             !.result = "Ok"]
                       ELSE [IdleCall EXCEPT !.op = "delete", !.pc = "delete_cancel",
                                             !.rec = current_recording,
                                             !.fx = <<"clear_current_recording">>])
    /\ UNCHANGED <<app_vars, lock, next_id, session, engine_vars,
                   task_vars, disk_vars, finish_vars>>
delete_recording(p) ==
    /\ ~Returning
    /\ call[p].pc = "idle"
    /\ lock = Free
    /\ current_recording' = clear_current_recording(current_recording)
    /\ call' = Goto(p, IF current_recording = None
                       THEN [IdleCall EXCEPT !.op = "delete", !.pc = "ret",
                                             !.result = "Ok"]
                       ELSE [IdleCall EXCEPT !.op = "delete", !.pc = "delete_cancel",
                                             !.rec = current_recording,
                                             !.fx = <<"clear_current_recording">>])
    /\ UNCHANGED <<recording_logging_handle, camera_feed, mic_feed, main_window,
                   in_progress_window, lock, next_id, session, engine_vars,
                   task_vars, disk_vars, finish_vars>>

\* delete_recording, lines 553-558: the video id, of an Instant Session only.
delete_video_id_any(mode) == TRUE
delete_video_id(mode) == mode = "Instant"

\* delete_recording, line 571: remove_dir_all, whose error is ignored.
dir_after_remove_kept(exists, removed) == exists
dir_after_remove(exists, removed) == IF removed THEN FALSE ELSE exists
remove_fx(removed) == IF removed THEN "remove_dir_all" ELSE "remove_dir_all failed"

\* delete_recording, lines 565-583: the notifications, the handle's cancel,
\* the removal of the directory and the remote delete request.
delete_recording_cancel(p) ==
    /\ ~Returning
    /\ call[p].pc = "delete_cancel"
    /\ LET s == call[p].rec IN
       \E r \in handle_cancel_outcomes(actor[s]), removed \in BOOLEAN :
        /\ actor' = [actor EXCEPT ![s] = actor_after_cancel(@, r)]
        /\ actor_done' = [actor_done EXCEPT ![s] = done_after_cancel(actor[s], @, r)]
        /\ recording_dir' = [recording_dir EXCEPT ![s] = dir_after_remove(@, removed)]
        /\ remote_video' = [remote_video EXCEPT ![s] =
                IF delete_video_id(session[s].mode) THEN "delete_requested" ELSE @]
        /\ call' = Goto(p, [call[p] EXCEPT
                !.pc = "ret", !.result = "Ok",
                !.fx = Emit(p, <<"CurrentRecordingChanged", "RecordingStopped",
                                 "handle.cancel", remove_fx(removed)>>
                               \o (IF delete_video_id(session[s].mode)
                                   THEN <<"delete_video">> ELSE <<>>))])
    /\ UNCHANGED <<app_vars, lock, next_id, session, task_vars, meta, finish_vars>>

\* restart_recording, lines 531-533: under the write lock, which the statement
\* releases, the Session is taken out of the slot. The id that the
\* start_recording of line 543 will draw is set aside here, so that the bound
\* on ids cannot block the command midway.
restart_recording(p) ==
    /\ ~Returning
    /\ call[p].pc = "idle"
    /\ next_id <= MaxRecordings
    /\ lock = Free
    /\ current_recording' = clear_current_recording(current_recording)
    /\ IF current_recording = None
       THEN /\ call' = Goto(p, [IdleCall EXCEPT !.op = "restart", !.pc = "ret",
                                                !.result = "No recording in progress"])
            /\ UNCHANGED next_id
       ELSE /\ call' = Goto(p, [IdleCall EXCEPT !.op = "restart",
                                                !.pc = "restart_cancel",
                                                !.rec = current_recording,
                                                !.id = next_id,
                                                !.fx = <<"clear_current_recording">>])
            /\ next_id' = next_id + 1
    /\ UNCHANGED <<recording_logging_handle, camera_feed, mic_feed, main_window,
                   in_progress_window, lock, session, engine_vars,
                   task_vars, disk_vars, finish_vars>>

\* restart_recording, line 537: the inputs start_recording is called with.
restart_inputs(removed) == removed.inputs

\* restart_recording, lines 535-543: CurrentRecordingChanged, the inputs of
\* the removed Session, the handle's cancel, the sleep, and the beginning of
\* start_recording (lines 212-223) with those inputs.
restart_recording_cancel(p) ==
    /\ ~Returning
    /\ call[p].pc = "restart_cancel"
    /\ LET s == call[p].rec IN
       \E r \in handle_cancel_outcomes(actor[s]), fs \in DirOutcomes :
        /\ actor' = [actor EXCEPT ![s] = actor_after_cancel(@, r)]
        /\ actor_done' = [actor_done EXCEPT ![s] = done_after_cancel(actor[s], @, r)]
        /\ recording_dir' = [recording_dir EXCEPT ![call[p].id] = dir_after_ensure(fs)]
        /\ call' = Goto(p, [call[p] EXCEPT
                !.inputs = restart_inputs(session[s]),
                !.pc = IF fs = "ok" THEN "logging" ELSE "ret",
                !.result = IF fs = "ok" THEN "none" ELSE fs,
                !.fx = Emit(p, <<"CurrentRecordingChanged", "handle.cancel", "sleep">>)])
    /\ UNCHANGED <<app_vars, lock, next_id, session, task_vars, remote_video, meta,
                   finish_vars>>

\* The monitor task, lines 429-433 and 453: it receives the completion
\* signal. Success: the finish trigger is sent. Failure: it goes on to take
\* the lock. Closed channel: it ends.
monitor_next(done) == IF done = "err" THEN "locking" ELSE "done"
finish_after_monitor_held(done, f) == f
finish_after_monitor_always(done, f) == "sent"
finish_after_monitor(done, f) ==
    IF done = "ok" THEN "sent" ELSE IF f = "unsent" THEN "dropped" ELSE f

monitor_recv(s) ==
    /\ ~Returning
    /\ monitor[s] = "waiting"
    /\ actor_done[s] \in {"ok", "err", "closed"}
    /\ monitor' = [monitor EXCEPT ![s] = monitor_next(actor_done[s])]
    /\ finish_upload' = [finish_upload EXCEPT ![s] =
                            finish_after_monitor(actor_done[s], @)]
    /\ UNCHANGED <<app_vars, lock, call, next_id, session, engine_vars, monitor_fx,
                   progressive, disk_vars, finish_vars>>

\* The monitor task, lines 435-452, one critical section of the write lock:
\* the blocking error dialog is shown and dismissed, and handle_recording_end
\* runs with no completed recording.
monitor_end(s) ==
    /\ ~Returning
    /\ monitor[s] = "locking"
    /\ lock = Free
    /\ handle_recording_end(None, "none")
    /\ monitor' = [monitor EXCEPT ![s] = "done"]
    /\ monitor_fx' = [monitor_fx EXCEPT ![s] = @ \o <<"dialog">> \o end_fx("none")]
    /\ UNCHANGED <<lock, call, next_id, session, engine_vars, finish_upload,
                   progressive, recording_dir, remote_video, upload_calls>>

\* The upload task, lines 704-745: the request it issues.
upload_request_full(video_upload_succeeded) == "upload_video"
upload_request(video_upload_succeeded) ==
    IF video_upload_succeeded THEN "prepare_screenshot_upload" ELSE "upload_video"

\* The upload task, lines 685-746: with a progressive upload it awaits that
\* upload and then the screenshot task, whose result it ignores (line 702),
\* and issues one request; without one it does nothing.
upload_requests_both(has_progressive, video_upload_succeeded) ==
    IF has_progressive THEN <<"prepare_screenshot_upload", "upload_video">> ELSE <<>>
upload_requests(has_progressive, video_upload_succeeded) ==
    IF has_progressive THEN <<upload_request(video_upload_succeeded)>> ELSE <<>>

upload_task_run(s) ==
    /\ ~Returning
    /\ upload_task[s] = "spawned"
    /\ session[s].progressive_upload =>
            /\ progressive[s] \in {"ok", "err"}
            /\ screenshot_task[s] \in {"ok", "err"}
    /\ upload_task' = [upload_task EXCEPT ![s] = "done"]
    /\ upload_calls' = [upload_calls EXCEPT ![s] =
            @ \o upload_requests(session[s].progressive_upload, progressive[s] = "ok")]
    /\ UNCHANGED <<app_vars, lock, call, next_id, session, engine_vars, task_vars,
                   disk_vars, screenshot_task>>

\* The screenshot task, lines 646-651: tokio::spawn(create_screenshot(..)),
\* which renders display.jpg or fails.
create_screenshot(s) ==
    /\ ~Returning
    /\ screenshot_task[s] = "spawned"
    /\ \E r \in {"ok", "err"} :
            screenshot_task' = [screenshot_task EXCEPT ![s] = r]
    /\ UNCHANGED <<app_vars, lock, call, next_id, session, engine_vars, task_vars,
                   disk_vars, upload_task, upload_calls>>

Next ==
    \/ \E p \in Callers :
        \/ \E inputs \in StartRecordingInputs : start_recording(p, inputs)
        \/ start_recording_prepare(p)
        \/ start_recording_spawn(p)
        \/ start_recording_finish(p)
        \/ pause_recording(p)
        \/ resume_recording(p)
        \/ stop_recording(p)
        \/ restart_recording(p)
        \/ restart_recording_cancel(p)
        \/ delete_recording(p)
        \/ delete_recording_cancel(p)
        \/ Return(p)
    \/ \E s \in Ids :
        \/ actor_fails(s)
        \/ progressive_resolves(s)
        \/ monitor_recv(s)
        \/ monitor_end(s)
        \/ upload_task_run(s)
        \/ create_screenshot(s)

Spec == Init /\ [][Next]_vars

\* handle_recording_finish and the upload task on every recording the types
\* InProgressRecording / CompletedRecording admit: a Session of any shape is
\* in the slot, as a start_recording that returned Ok leaves it, and the
\* commands and tasks run from there. The type has progressive_upload as an
\* Option also for Instant, though start_recording only ever builds Some.
SessionShapes ==
    {r \in {[mode |-> i.mode, inputs |-> i, progressive_upload |-> pu,
             video_upload_info |-> (i.mode = "Instant")] :
                i \in StartRecordingInputs, pu \in BOOLEAN} :
        r.progressive_upload => r.mode = "Instant"}

FinishInit ==
    /\ current_recording = 1
    /\ recording_logging_handle = 1
    /\ camera_feed = TRUE
    /\ mic_feed = TRUE
    /\ main_window \in BOOLEAN
    /\ in_progress_window = TRUE
    /\ lock = Free
    /\ call = [p \in Callers |-> IdleCall]
    /\ next_id = 2
    /\ \E shape \in SessionShapes :
        /\ session = [s \in Ids |-> IF s = 1 THEN shape ELSE NoSession]
        /\ progressive = [s \in Ids |->
                IF s = 1 /\ shape.progressive_upload THEN "running" ELSE "none"]
        /\ remote_video = [s \in Ids |->
                IF s = 1 /\ shape.video_upload_info THEN "created" ELSE "none"]
    /\ actor = [s \in Ids |-> IF s = 1 THEN "running" ELSE "none"]
    /\ actor_done = [s \in Ids |-> IF s = 1 THEN "pending" ELSE "none"]
    /\ monitor = [s \in Ids |-> IF s = 1 THEN "waiting" ELSE "none"]
    /\ monitor_fx = [s \in Ids |-> <<>>]
    /\ finish_upload = [s \in Ids |-> IF s = 1 THEN "unsent" ELSE "none"]
    /\ recording_dir = [s \in Ids |-> s = 1]
    /\ meta = [s \in Ids |-> 0]
    /\ screenshot_task = [s \in Ids |-> "none"]
    /\ upload_task = [s \in Ids |-> "none"]
    /\ upload_calls = [s \in Ids |-> <<>>]

FinishSpec == FinishInit /\ [][Next]_vars

----------------------------------------------------------------------------

InSeq(x, seq) == \E i \in 1..Len(seq) : seq[i] = x
Returned(p, op) == call[p].pc = "ret" /\ call[p].op = op
StartReturned(p) == call[p].pc = "ret" /\ call[p].op \in {"start", "restart"}

\* C1: when stop_recording returns Ok for the Session it took out of the
\* slot, exactly one Recording Metadata record has been persisted for that
\* Session and the slot is empty; no Session ever has more than one record.
C1_StopPersistsOnce ==
    /\ \A p \in Callers :
        (Returned(p, "stop") /\ call[p].result = "Ok")
            => /\ call[p].rec # None
               /\ meta[call[p].rec] = 1
               /\ current_recording = None
    /\ \A s \in Ids : meta[s] <= 1

C1_Witness ==
    \E p \in Callers :
        /\ Returned(p, "stop") /\ call[p].result = "Ok"
        /\ meta[call[p].rec] = 1
        /\ current_recording = None

\* C2: a Session that is in the slot is never replaced by another Session:
\* the slot only goes from a Session to empty, start_recording being rejected
\* while a Session is active.
C2_ActiveSessionNeverOverwritten ==
    [][current_recording # None => current_recording' \in {None, current_recording}]_vars

\* C3 as stated: delete_recording persists no Recording Metadata, and when it
\* returns the recording directory is absent and the slot is empty.
C3_DeleteLeavesNothing ==
    \A p \in Callers :
        (Returned(p, "delete") /\ call[p].rec # None)
            => /\ meta[call[p].rec] = 0
               /\ ~recording_dir[call[p].rec]
               /\ current_recording = None

\* C3 amended: delete_recording persists no Recording Metadata for the Session
\* it took out of the slot; when it returns that Session is not in the slot,
\* and the removal of its directory has been attempted once, the directory
\* being absent unless that removal failed.
C3_DeleteBestEffort ==
    \A p \in Callers :
        (Returned(p, "delete") /\ call[p].rec # None)
            => /\ meta[call[p].rec] = 0
               /\ current_recording # call[p].rec
               /\ call[p].result = "Ok"
               /\ Cardinality({i \in 1..Len(call[p].fx) :
                     call[p].fx[i] \in {"remove_dir_all", "remove_dir_all failed"}}) = 1
               /\ InSeq("remove_dir_all", call[p].fx) => ~recording_dir[call[p].rec]

C3_Witness ==
    \E p \in Callers :
        /\ Returned(p, "delete") /\ call[p].rec # None
        /\ InSeq("remove_dir_all", call[p].fx)
        /\ ~recording_dir[call[p].rec]
        /\ meta[call[p].rec] = 0

\* C4: in Instant mode, when the progressive upload of a Session succeeded,
\* finalization never issues upload_video for it: the only request of its
\* upload task is prepare_screenshot_upload.
C4_ProgressiveSuccessScreenshotOnly ==
    \A s \in Ids :
        progressive[s] = "ok"
            => /\ ~InSeq("upload_video", upload_calls[s])
               /\ upload_task[s] = "done"
                    => upload_calls[s] = <<"prepare_screenshot_upload">>

C4_Witness ==
    \E s \in Ids :
        /\ session[s].mode = "Instant"
        /\ progressive[s] = "ok"
        /\ upload_task[s] = "done"
        /\ upload_calls[s] = <<"prepare_screenshot_upload">>

C6_RestartIsDeleteThenStart ==
    \A p \in Callers :
        (Returned(p, "restart") /\ call[p].rec # None)
            => /\ call[p].inputs = session[call[p].rec].inputs
               /\ InSeq("handle.cancel", call[p].fx)
               /\ meta[call[p].rec] = 0
               /\ InSeq("RecordingStopped", call[p].fx)
               /\ InSeq("remove_dir_all", call[p].fx)
                    \/ InSeq("remove_dir_all failed", call[p].fx)
               /\ session[call[p].rec].mode = "Instant"
                    => remote_video[call[p].rec] = "delete_requested"

\* C7: when start_recording returns the sign-in error, no recording directory
\* was created for it and no Session was stored.
C7_SignInErrorLeavesNothing ==
    \A p \in Callers :
        (StartReturned(p) /\ call[p].result = SignInError)
            => /\ ~recording_dir[call[p].id]
               /\ session[call[p].id] = NoSession

\* C8: when the pre-creation of the upload ticket failed for an authenticated
\* user in Instant mode, start_recording goes on: unless the capture itself
\* could not be spawned it returns Ok, having stored a Session without
\* video_upload_info and without progressive upload.
C8_StartsWithoutTicket ==
    \A p \in Callers :
        (/\ StartReturned(p)
         /\ call[p].inputs.mode = "Instant"
         /\ ~call[p].info
         /\ call[p].result \notin DirOutcomes \cup
                {"Failed to reload logging layer", SignInError,
                 "No recording in progress",
                 "Failed to spawn recording actor", "spawn error"})
            => /\ call[p].result = "Ok"
               /\ session[call[p].id].mode = "Instant"
               /\ ~session[call[p].id].video_upload_info
               /\ ~session[call[p].id].progressive_upload

\* C9: when the monitor task has ended because the completion channel was
\* closed without a signal, it has shown the error dialog and run the
\* cleanup, so that the Session it watched is not in the slot.
C9_ClosedChannelCleansUp ==
    \A s \in Ids :
        (monitor[s] = "done" /\ actor_done[s] = "closed")
            => /\ InSeq("dialog", monitor_fx[s])
               /\ InSeq("RecordingStopped", monitor_fx[s])
               /\ current_recording # s

\* C10: on a reported failure the monitor task takes the lock, shows the
\* dialog and then does the cleanup of handle_recording_end, as stop_recording
\* does: the slot is emptied, RecordingStopped emitted, the log redirect
\* reset, the in-progress window closed, CurrentRecordingChanged emitted; no
\* Recording Metadata is written and no upload task spawned. It does so only
\* on a reported failure.
C10_FailureRunsCleanup ==
    [][/\ \A s \in Ids :
            /\ (monitor[s] = "locking" /\ monitor'[s] = "done")
                => /\ actor_done[s] = "err"
                   /\ lock = Free
                   /\ monitor_fx'[s] = <<"dialog">> \o end_fx("ok")
                   /\ Len(monitor_fx'[s]) = 5
                   /\ current_recording' = None
                   /\ recording_logging_handle' = None
                   /\ ~in_progress_window'
                   /\ meta' = meta
                   /\ upload_task' = upload_task
            /\ monitor_fx'[s] # monitor_fx[s] => monitor[s] = "locking"
       /\ \A p \in Callers :
            (call[p].pc = "idle" /\ call'[p].pc = "ret" /\ call'[p].op = "stop"
             /\ call'[p].result = "Ok")
                => /\ SubSeq(call'[p].fx, Len(call'[p].fx) - 3, Len(call'[p].fx))
                        = <<"RecordingStopped", "reload(None)", "close_in_progress",
                            "CurrentRecordingChanged">>
                   /\ current_recording' = None
                   /\ recording_logging_handle' = None
                   /\ ~in_progress_window']_vars

C10_Witness ==
    \E s \in Ids :
        /\ monitor[s] = "done"
        /\ actor_done[s] = "err"
        /\ monitor_fx[s] = <<"dialog", "RecordingStopped", "reload(None)",
                             "close_in_progress", "CurrentRecordingChanged">>
        /\ meta[s] = 0

\* C11: stop_recording with no Session in the slot returns "Recording not in
\* progress" and changes nothing: no handle operation, no metadata, no
\* notification, the slot stays empty; and it returns that error only then.
C11_StopWithoutSession ==
    [][\A p \in Callers :
        (call[p].pc = "idle" /\ call'[p].op = "stop")
            => /\ call'[p].result = "Recording not in progress"
                    <=> current_recording = None
               /\ current_recording = None
                    => /\ call'[p].fx = <<>>
                       /\ current_recording' = None
                       /\ UNCHANGED <<recording_logging_handle, camera_feed, mic_feed,
                                      main_window, in_progress_window, next_id,
                                      session, engine_vars, task_vars, disk_vars,
                                      finish_vars>>]_vars

C11_Witness ==
    \E p \in Callers :
        /\ Returned(p, "stop")
        /\ call[p].result = "Recording not in progress"
        /\ call[p].fx = <<>>
        /\ current_recording = None
        /\ \E s \in Ids : meta[s] = 1

\* C12: pause_recording and resume_recording return Ok without any effect
\* when the slot is empty; with a Session in the slot they call its handle
\* once and return the handle's error when it fails, Ok otherwise; in every
\* case the slot and the stored Sessions are left as they were.
C12_PauseResumeDelegate ==
    [][\A p \in Callers :
        (call[p].pc = "idle" /\ call'[p].op \in {"pause", "resume"})
            => /\ current_recording' = current_recording
               /\ UNCHANGED <<session, recording_logging_handle, camera_feed, mic_feed,
                              main_window, in_progress_window, next_id, actor_done,
                              task_vars, disk_vars, finish_vars>>
               /\ call'[p].pc = "ret"
               /\ IF current_recording = None
                  THEN /\ call'[p].result = "Ok"
                       /\ call'[p].fx = <<>>
                       /\ actor' = actor
                  ELSE /\ Len(call'[p].fx) = 2
                       /\ call'[p].fx[1] = (IF call'[p].op = "pause" THEN "handle.pause"
                                                                   ELSE "handle.resume")
                       /\ call'[p].result =
                            (IF call'[p].fx[2] = "Ok" THEN "Ok"
                             ELSE IF call'[p].op = "pause" THEN "pause error"
                             ELSE "resume error")
                       /\ \A s \in Ids \ {current_recording} : actor'[s] = actor[s]]_vars

C12_Witness ==
    \E p \in Callers :
        /\ Returned(p, "pause")
        /\ call[p].rec # None
        /\ current_recording = call[p].rec
        /\ call[p].fx = <<"handle.pause", "Err">>
        /\ call[p].result = "pause error"

Terminal(fx) == InSeq("handle.stop", fx) \/ InSeq("handle.cancel", fx)
Position(x, seq) == CHOOSE i \in 1..Len(seq) : seq[i] = x

\* C13: stop_recording, restart_recording and delete_recording take the
\* Session out of the slot before they call stop or cancel on its handle: at
\* the call the Session is not in the slot. A command obtains a Session only
\* from the slot, and only a Session whose capture actor was just spawned
\* enters the slot, so no command obtains a handle that was stopped or
\* cancelled.
C13_ClearedBeforeTerminal ==
    [][/\ \A p \in Callers :
            (~Terminal(call[p].fx) /\ Terminal(call'[p].fx))
                => /\ call'[p].op \in {"stop", "restart", "delete"}
                   /\ call'[p].rec # None
                   /\ current_recording' # call'[p].rec
                   /\ call'[p].op # "stop" => current_recording # call'[p].rec
                   /\ Position("clear_current_recording", call'[p].fx)
                        < Position(IF call'[p].op = "stop" THEN "handle.stop"
                                   ELSE "handle.cancel", call'[p].fx)
       /\ \A p \in Callers :
            (call'[p].rec # call[p].rec /\ call'[p].rec # None)
                => call'[p].rec = current_recording
       /\ \A s \in Ids :
            (current_recording' = s /\ current_recording # s)
                => actor[s] = "none" /\ actor'[s] = "running"]_vars

C13_Witness ==
    \E p \in Callers :
        /\ Returned(p, "delete")
        /\ call[p].rec # None
        /\ InSeq("handle.cancel", call[p].fx)
        /\ current_recording \notin {None, call[p].rec}

\* C14: whenever stop_recording has taken a Session out of the slot, it has
\* done the end-of-session cleanup when it returns, whatever it returns: the
\* log redirect is reset, the in-progress window closed, RecordingStopped and
\* CurrentRecordingChanged emitted, and the feeds released when there is no
\* main window.
C14_StopAlwaysCleansUp ==
    \A p \in Callers :
        (Returned(p, "stop") /\ call[p].rec # None)
            => /\ recording_logging_handle = None
               /\ ~in_progress_window
               /\ InSeq("RecordingStopped", call[p].fx)
               /\ InSeq("CurrentRecordingChanged", call[p].fx)
               /\ ~main_window => ~camera_feed /\ ~mic_feed

\* C15: the RecordingMeta saved by a stop_recording that returns Ok matches
\* the mode of the Session: Studio gives inner Studio and no sharing; Instant
\* gives inner Instant and a sharing with the link and the id of the remote
\* video pre-created for that Session.
C15_MetaMatchesMode ==
    \A p \in Callers :
        (Returned(p, "stop") /\ call[p].result = "Ok")
            => LET s == call[p].rec IN
               /\ call[p].saved.inner = session[s].mode
               /\ session[s].mode \in Modes
               /\ session[s].mode = "Studio" => call[p].saved.sharing = NoSharing
               /\ session[s].mode = "Instant"
                    => /\ call[p].saved.sharing = [link |-> <<"/s", s>>, id |-> s]
                       /\ session[s].video_upload_info
                       /\ remote_video[s] = "created"

C15_Witness ==
    \E p \in Callers :
        /\ Returned(p, "stop") /\ call[p].result = "Ok"
        /\ session[call[p].rec].mode = "Instant"
        /\ call[p].saved = [inner |-> "Instant",
                            sharing |-> [link |-> <<"/s", call[p].rec>>,
                                         id |-> call[p].rec]]

C17_ExactlyOneUpload ==
    \A s \in Ids :
        /\ upload_task[s] # "done" => upload_calls[s] = <<>>
        /\ (session[s].progressive_upload /\ upload_task[s] = "done")
            => /\ session[s].mode = "Instant"
               /\ progressive[s] \in {"ok", "err"}
               /\ Len(upload_calls[s]) = 1
               /\ upload_calls[s][1] =
                    (IF progressive[s] = "ok" THEN "prepare_screenshot_upload"
                                              ELSE "upload_video")

C17_Witness ==
    \E s \in Ids :
        /\ session[s].progressive_upload
        /\ meta[s] = 1
        /\ progressive[s] = "err"
        /\ upload_task[s] = "done"
        /\ upload_calls[s] = <<"upload_video">>

\* C18: start_recording spawns the capture actor and stores the Session in
\* one critical section of the write lock: the step that spawns the actor of
\* a recording takes the free lock and leaves the complete Session (inputs,
\* video_upload_info, progressive upload) in the slot, so in every state a
\* recording has a capture actor exactly when its Session was built.
C18_SpawnAndStoreTogether ==
    /\ [](\A s \in Ids : actor[s] = "none" <=> session[s] = NoSession)
    /\ [][\A s \in Ids :
            (actor[s] = "none" /\ actor'[s] # "none")
                => /\ lock = Free
                   /\ actor'[s] = "running"
                   /\ current_recording' = s
                   /\ \E p \in Callers :
                        /\ call[p].id = s
                        /\ call'[p].pc = "monitor"
                        /\ session'[s].mode = call[p].inputs.mode
                        /\ session'[s].inputs = call[p].inputs
                        /\ session'[s].video_upload_info = call[p].info
                        /\ session'[s].progressive_upload
                                = (progressive[s] # "none")]_vars

C18_Witness ==
    \E p \in Callers :
        /\ call[p].pc = "monitor"
        /\ actor[call[p].id] = "running"
        /\ current_recording = call[p].id
        /\ session[call[p].id].inputs = call[p].inputs
        /\ monitor[call[p].id] = "none"

\* C19: the finish trigger of a recording is sent at most once, by its
\* monitor task and only when the completion signal reported success; that
\* step changes nothing else (slot, feeds, log redirect, windows) and emits
\* nothing. When the signal reports a failure or the channel is closed, the
\* trigger is not sent.
C19_FinishTriggerOnSuccessOnly ==
    /\ [](\A s \in Ids : finish_upload[s] = "sent" => actor_done[s] = "ok")
    /\ [][\A s \in Ids :
            /\ finish_upload[s] = "sent" => finish_upload'[s] = "sent"
            /\ (finish_upload[s] # "sent" /\ finish_upload'[s] = "sent")
                => /\ finish_upload[s] = "unsent"
                   /\ actor_done[s] = "ok"
                   /\ monitor[s] = "waiting" /\ monitor'[s] = "done"
                   /\ UNCHANGED <<app_vars, lock, call, next_id, session, engine_vars,
                                  monitor_fx, progressive, disk_vars, finish_vars>>
            /\ (monitor[s] = "waiting" /\ monitor'[s] # "waiting"
                /\ actor_done[s] \in {"err", "closed"})
                => finish_upload'[s] = "dropped"]_vars

C19_Witness ==
    \E s \in Ids :
        /\ finish_upload[s] = "sent"
        /\ actor_done[s] = "ok"
        /\ monitor[s] = "done"
        /\ monitor_fx[s] = <<>>
        /\ progressive[s] = "running"

\* C20: stop_recording only spawns the screenshot task and the upload task:
\* when it returns they have not run, and they run afterwards without the
\* lock and without the command. Whatever they do, failure included, changes
\* neither a command's result nor the lock nor the saved Recording Metadata.
C20_TasksDetached ==
    /\ [](\A p \in Callers :
            (Returned(p, "stop") /\ call[p].rec # None
             /\ call[p].result # "stop error")
                => /\ screenshot_task[call[p].rec] = "spawned"
                   /\ session[call[p].rec].mode = "Instant"
                        => upload_task[call[p].rec] = "spawned"
                   /\ upload_calls[call[p].rec] = <<>>
                   /\ call[p].result = "Ok" => meta[call[p].rec] = 1)
    /\ [][\A s \in Ids :
            /\ (screenshot_task[s] = "spawned" /\ screenshot_task'[s] # "spawned")
                => UNCHANGED <<app_vars, lock, call, meta, upload_task, upload_calls>>
            /\ (upload_task[s] = "spawned" /\ upload_task'[s] # "spawned")
                => UNCHANGED <<app_vars, lock, call, meta, screenshot_task>>]_vars

C20_Witness ==
    \E s \in Ids :
        /\ meta[s] = 1
        /\ lock = Free
        /\ \A p \in Callers : call[p].pc = "idle"
        /\ screenshot_task[s] = "err"
        /\ upload_task[s] = "spawned"
        /\ progressive[s] = "running"

\* C21: delete_recording always returns Ok. With an empty slot it does
\* nothing at all. With a Session it goes on whatever the handle's cancel,
\* the removal of the directory and the remote delete give, and it requests
\* the deletion of the remote video exactly when the Session is Instant.
C21_DeleteAlwaysOk ==
    /\ [](\A p \in Callers :
            Returned(p, "delete")
                => /\ call[p].result = "Ok"
                   /\ call[p].rec = None => call[p].fx = <<>>
                   /\ call[p].rec # None
                        => /\ InSeq("handle.cancel", call[p].fx)
                           /\ InSeq("remove_dir_all", call[p].fx)
                                \/ InSeq("remove_dir_all failed", call[p].fx)
                           /\ InSeq("delete_video", call[p].fx)
                                <=> session[call[p].rec].mode = "Instant"
                           /\ remote_video[call[p].rec] = "delete_requested"
                                <=> session[call[p].rec].mode = "Instant")
    /\ [][\A p \in Callers :
            (call[p].pc = "idle" /\ call'[p].op = "delete" /\ current_recording = None)
                => /\ call'[p].pc = "ret"
                   /\ call'[p].rec = None
                   /\ UNCHANGED <<app_vars, lock, next_id, session, engine_vars,
                                  task_vars, disk_vars, finish_vars>>]_vars

C21_Witness ==
    \E p \in Callers :
        /\ Returned(p, "delete")
        /\ call[p].result = "Ok"
        /\ call[p].rec # None
        /\ session[call[p].rec].mode = "Instant"
        /\ actor_done[call[p].rec] = "closed"
        /\ InSeq("remove_dir_all failed", call[p].fx)
        /\ InSeq("delete_video", call[p].fx)

\* C22: the monitor task of a recording only ever clears that recording: when
\* it handles a failure while the slot holds another Session, it neither
\* takes that Session out of the slot nor runs the end-of-session cleanup
\* against it.
C22_MonitorClearsOwnSessionOnly ==
    [][\A s \in Ids :
        (monitor[s] = "locking" /\ monitor'[s] = "done"
         /\ current_recording \notin {None, s})
            => UNCHANGED <<current_recording, recording_logging_handle,
                           in_progress_window, camera_feed, mic_feed>>]_vars

\* C23: whenever the slot is empty and no command is running and no monitor
\* task is about to handle a failure, the log redirect is inactive.
C23_NoSessionNoLogRedirect ==
    (/\ current_recording = None
     /\ \A p \in Callers : call[p].pc = "idle"
     /\ \A s \in Ids : monitor[s] # "locking")
        => recording_logging_handle = None

\* C24: a start_recording that returns an error has left the slot as it was
\* at each of its steps, has spawned no capture actor and no monitor task and
\* has emitted no RecordingStarted; RecordingStarted is emitted only after
\* the Session was stored in the slot.
C24_FailedStartLeavesSlot ==
    /\ [](\A p \in Callers :
            /\ (StartReturned(p) /\ call[p].result # "Ok")
                => /\ ~InSeq("set_current_recording", call[p].fx)
                   /\ ~InSeq("RecordingStarted", call[p].fx)
                   /\ call[p].id # None
                        => /\ monitor[call[p].id] = "none"
                           /\ actor[call[p].id] = "none"
                           /\ current_recording # call[p].id
            /\ InSeq("RecordingStarted", call[p].fx)
                => /\ InSeq("set_current_recording", call[p].fx)
                   /\ Position("set_current_recording", call[p].fx)
                        < Position("RecordingStarted", call[p].fx)
                   /\ call[p].result = "Ok")
    /\ [][\A p \in Callers :
            (call[p].pc \in {"idle", "logging", "spawn", "restart_cancel"}
             /\ call'[p].op \in {"start", "restart"}
             /\ call'[p].pc = "ret" /\ call'[p].result # "Ok"
             /\ call'[p].id # None)
                => current_recording' = current_recording]_vars

C24_Witness ==
    \E p \in Callers :
        /\ StartReturned(p)
        /\ call[p].result = "spawn error"
        /\ current_recording \notin {None, call[p].id}
        /\ monitor[call[p].id] = "none"

\* ---------------------------------------------------------------------------
\* Progress under fair scheduling.
\*
\* The commands and tasks of Next, with the commands pressed in any order and
\* without end, and LiveStarts recordings started by start_recording (a
\* restart_recording may start one more).
LiveStarts == 1

LiveNext ==
    \/ \E p \in Callers :
        \/ \E inputs \in StartRecordingInputs :
                next_id <= LiveStarts /\ start_recording(p, inputs)
        \/ start_recording_prepare(p)
        \/ start_recording_spawn(p)
        \/ start_recording_finish(p)
        \/ pause_recording(p)
        \/ resume_recording(p)
        \/ stop_recording(p)
        \/ restart_recording(p)
        \/ restart_recording_cancel(p)
        \/ delete_recording(p)
        \/ delete_recording_cancel(p)
        \/ Return(p)
    \/ \E s \in Ids :
        \/ actor_fails(s)
        \/ progressive_resolves(s)
        \/ monitor_recv(s)
        \/ monitor_end(s)
        \/ upload_task_run(s)
        \/ create_screenshot(s)

\* The steps that are not a caller's choice: the continuation of a command
\* that has begun (its awaits return: engine calls, file system, the fair
\* tokio RwLock), the monitor task (the completion signal is delivered, the
\* dialog is dismissed, the write lock is granted), the detached screenshot
\* and upload tasks, and the progressive upload once its finish trigger was
\* sent or its sender dropped. Whether a command is called, whether the actor
\* fails, and whether the progressive upload ends before its trigger, is
\* left open.
Progress ==
    \/ \E p \in Callers :
        \/ start_recording_prepare(p)
        \/ start_recording_spawn(p)
        \/ start_recording_finish(p)
        \/ restart_recording_cancel(p)
        \/ delete_recording_cancel(p)
    \/ \E s \in Ids :
        \/ monitor_recv(s)
        \/ monitor_end(s)
        \/ upload_task_run(s)
        \/ create_screenshot(s)
        \/ (finish_upload[s] \in {"sent", "dropped"} /\ progressive_resolves(s))

\* The tokio runtime polls every ready task, and a command that has its
\* result returns it. Each step of Progress is taken a bounded number of times
\* per recording, so strong fairness of their disjunction is what strong
\* fairness of each of them separately implies, and no more.
Fairness ==
    /\ WF_vars(\E p \in Callers : Return(p))
    /\ SF_vars(Progress)

LiveSpec == Init /\ [][LiveNext]_vars /\ Fairness

\* C25: after stop_recording returned Ok for an Instant recording with a
\* progressive upload, the upload decision is eventually made: the monitor
\* has consumed the success signal and sent the finish trigger, the
\* progressive upload has resolved, and the detached upload task has issued
\* its one request, the screenshot attach or the fallback full upload.
C25_UploadDecisionEventuallyMade ==
    \A p \in Callers, s \in Ids :
        (/\ Returned(p, "stop")
         /\ call[p].result = "Ok"
         /\ call[p].rec = s
         /\ session[s].progressive_upload)
        ~> (/\ monitor[s] = "done"
            /\ finish_upload[s] = "sent"
            /\ progressive[s] \in {"ok", "err"}
            /\ upload_task[s] = "done"
            /\ upload_calls[s] \in {<<"prepare_screenshot_upload">>,
                                    <<"upload_video">>})

C25_Witness ==
    \E s \in Ids :
        /\ session[s].progressive_upload
        /\ meta[s] = 1
        /\ monitor[s] = "done"
        /\ finish_upload[s] = "sent"
        /\ progressive[s] = "ok"
        /\ upload_task[s] = "done"
        /\ upload_calls[s] = <<"prepare_screenshot_upload">>

\* C26: no command and no monitor is blocked for ever: every command that
\* has begun returns, the write lock is released whenever it is held, and a
\* monitor that handles a failure gets the lock and finishes.
C26_EveryCallReturns ==
    /\ \A p \in Callers : (call[p].pc # "idle") ~> (call[p].pc = "idle")
    /\ (lock # Free) ~> (lock = Free)
    /\ \A s \in Ids : (monitor[s] = "locking") ~> (monitor[s] = "done")

\* A start_recording waits for the write lock while another command holds it
\* and a monitor that handles a failure waits for it too.
C26_Witness ==
    \E p \in Callers, q \in Callers, s \in Ids :
        /\ p # q
        /\ call[p].pc = "spawn"
        /\ lock = ByCall(q)
        /\ monitor[s] = "locking"

====
